---- MODULE Spec2Model ----
(***************************************************************************)
(* KRPC wire codec of rust-dht (src/bt/protocol.rs): the 160-bit node      *)
(* identifier packing, the compact node packing and the Package            *)
(* encoder / decoder over the generic bencode value tree.                  *)
(*                                                                         *)
(* Byte strings (Vec<u8>, ByteString, str, String) are sequences of        *)
(* integers 0..255; a String is a byte sequence that is valid UTF-8.       *)
(* A num::BigUint is the sequence of its base-256 digits, least            *)
(* significant first, without most significant zero digits (so that two    *)
(* BigUint are equal iff the sequences are equal).                         *)
(* A Bencode value is a record tagged by its variant:                      *)
(*   [t |-> "Number", v |-> i]      [t |-> "ByteString", v |-> bytes]      *)
(*   [t |-> "List", v |-> <<...>>]  [t |-> "Dict", v |-> [keys -> values]] *)
(* and a DictMap (BTreeMap<ByteString, Bencode>) is a function whose       *)
(* domain is a set of byte strings.                                        *)
(***************************************************************************)
EXTENDS Integers, Sequences, FiniteSets, TLC

VARIABLES op, pc, arg, wire, ret

vars == <<op, pc, arg, wire, ret>>

----------------------------------------------------------------------------
(* Constants of protocol.rs *)

ID_BYTE_SIZE == 20

\* "q"
QUERY == <<113>>
\* "r"
RESPONSE == <<114>>
\* "e"
ERROR == <<101>>
\* "y"
TYPE == <<121>>
\* "tt"
TR_ID == <<116, 116>>
\* "id"
SENDER == <<105, 100>>

\* the literal "Unknown error" substituted for a non UTF-8 error message
UNKNOWN_ERROR == <<85, 110, 107, 110, 111, 119, 110, 32, 101, 114, 114, 111, 114>>

----------------------------------------------------------------------------
(* Bencode constructors *)

Number(i) == [t |-> "Number", v |-> i]
ByteString(s) == [t |-> "ByteString", v |-> s]
List(l) == [t |-> "List", v |-> l]
Dict(d) == [t |-> "Dict", v |-> d]

\* key(s): the ByteString key of a payload dict for the text s
key(s) == s

\* BTreeMap::insert: the entry under k is set, replacing an older one
insert(d, k, val) == [x \in (DOMAIN d) \cup {k} |-> IF x = k THEN val ELSE d[x]]

\* BTreeMap::remove: the map without the entry under k
remove(d, k) == [x \in (DOMAIN d) \ {k} |-> d[x]]

\* BTreeMap::new()
EmptyDict == [x \in {} |-> 0]

----------------------------------------------------------------------------
(* str::from_utf8 as used by container_as_str: well-formed UTF-8 *)

IsCont(b) == b >= 128 /\ b <= 191

RECURSIVE IsUtf8(_)
IsUtf8(s) ==
    IF s = <<>> THEN TRUE
    ELSE LET b == s[1]
             n == Len(s)
         IN  IF b <= 127 THEN IsUtf8(Tail(s))
             ELSE IF b >= 194 /\ b <= 223
                  THEN n >= 2 /\ IsCont(s[2]) /\ IsUtf8(SubSeq(s, 3, n))
             ELSE IF b >= 224 /\ b <= 239
                  THEN /\ n >= 3
                       /\ IsCont(s[2]) /\ IsCont(s[3])
                       /\ (b = 224 => s[2] >= 160)
                       /\ (b = 237 => s[2] <= 159)
                       /\ IsUtf8(SubSeq(s, 4, n))
             ELSE IF b >= 240 /\ b <= 244
                  THEN /\ n >= 4
                       /\ IsCont(s[2]) /\ IsCont(s[3]) /\ IsCont(s[4])
                       /\ (b = 240 => s[2] >= 144)
                       /\ (b = 244 => s[2] <= 143)
                       /\ IsUtf8(SubSeq(s, 5, n))
             ELSE FALSE

\* container_as_str: Some(text) for valid UTF-8 bytes, None otherwise
container_as_str(bytes) ==
    IF IsUtf8(bytes) THEN [some |-> TRUE, str |-> bytes] ELSE [some |-> FALSE]

----------------------------------------------------------------------------
(* num::BigUint arithmetic used by the identifier codec *)

RECURSIVE Normalize(_)
Normalize(x) ==
    IF x = <<>> THEN <<>>
    ELSE IF x[Len(x)] = 0 THEN Normalize(SubSeq(x, 1, Len(x) - 1))
    ELSE x

\* FromPrimitive::from_u8 / from_int(0)
BigFromU8(b) == IF b = 0 THEN <<>> ELSE <<b>>

\* number of bits of a byte: 0 for 0, 8 for 128..255
ByteBits(b) == CHOOSE n \in 0..8 : b < 2^n /\ (n = 0 \/ b >= 2^(n - 1))

\* BigUint::bits
BigBits(x) == IF x = <<>> THEN 0 ELSE 8 * (Len(x) - 1) + ByteBits(x[Len(x)])

RECURSIVE BitAnd(_, _)
BitAnd(a, b) ==
    IF a = 0 \/ b = 0 THEN 0
    ELSE (a % 2) * (b % 2) + 2 * BitAnd(a \div 2, b \div 2)

\* &x & &y
BigAnd(x, y) ==
    LET n == IF Len(x) < Len(y) THEN Len(x) ELSE Len(y)
    IN  Normalize([i \in 1..n |-> BitAnd(x[i], y[i])])

\* ToPrimitive::to_u8: Some(byte) when the value fits in 8 bits
BigToU8(x) ==
    IF x = <<>> THEN [some |-> TRUE, val |-> 0]
    ELSE IF Len(x) = 1 THEN [some |-> TRUE, val |-> x[1]]
    ELSE [some |-> FALSE]

\* x >> bits, for a whole number of bytes
BigShr(x, bits) ==
    IF Len(x) <= bits \div 8 THEN <<>>
    ELSE SubSeq(x, (bits \div 8) + 1, Len(x))

\* x << bits, for a whole number of bytes
BigShl(x, bits) ==
    IF x = <<>> THEN <<>>
    ELSE [i \in 1..((bits \div 8) + Len(x)) |->
             IF i <= bits \div 8 THEN 0 ELSE x[i - (bits \div 8)]]

RECURSIVE BigAddCarry(_, _, _)
BigAddCarry(x, y, c) ==
    IF x = <<>> /\ y = <<>> THEN (IF c = 0 THEN <<>> ELSE <<c>>)
    ELSE LET a == IF x = <<>> THEN 0 ELSE x[1]
             b == IF y = <<>> THEN 0 ELSE y[1]
             s == a + b + c
             xs == IF x = <<>> THEN <<>> ELSE Tail(x)
             ys == IF y = <<>> THEN <<>> ELSE Tail(y)
         IN  <<s % 256>> \o BigAddCarry(xs, ys, s \div 256)

\* x + y
BigAdd(x, y) == Normalize(BigAddCarry(x, y, 0))

----------------------------------------------------------------------------
(* Identifier codec *)

\* assert!(id.bits() <= ID_BYTE_SIZE * 8) fails
id_to_netbytes_panics(id) == BigBits(id) > ID_BYTE_SIZE * 8

RECURSIVE id_to_netbytes_loop(_, _, _)
id_to_netbytes_loop(result, i, id_c) ==
    IF i = 0 THEN result
    ELSE LET mask == BigFromU8(255)
             part == BigAnd(id_c, mask)
         IN  id_to_netbytes_loop([result EXCEPT ![i] = BigToU8(part).val],
                                 i - 1, BigShr(id_c, 8))

\* id_to_netbytes with the buffer filled front to back (the loop without
\* .rev()): least significant byte first
id_to_netbytes_le(id) ==
    [k \in 1..ID_BYTE_SIZE |-> IF k <= Len(id) THEN id[k] ELSE 0]

id_to_netbytes(id) ==
    id_to_netbytes_loop([k \in 1..ID_BYTE_SIZE |-> 0], ID_BYTE_SIZE, id)

RECURSIVE id_from_netbytes_loop(_, _, _, _)
id_from_netbytes_loop(bytes, i, result, shift) ==
    IF i = 0 THEN result
    ELSE LET val == BigFromU8(bytes[i])
         IN  id_from_netbytes_loop(bytes, i - 1,
                                   BigAdd(result, BigShl(val, shift)), shift + 8)

id_from_netbytes(bytes) ==
    id_from_netbytes_loop(bytes, Len(bytes), BigFromU8(0), 0)

----------------------------------------------------------------------------
(* Address codec (utils::netaddr_to_netbytes / netaddr_from_netbytes):     *)
(* an address is [ip |-> <<a, b, c, d>>, port |-> 0..65535]                *)

netaddr_to_netbytes(addr) ==
    addr.ip \o <<addr.port \div 256, addr.port % 256>>

netaddr_from_netbytes(bytes) ==
    [ip |-> SubSeq(bytes, 1, 4), port |-> bytes[5] * 256 + bytes[6]]

----------------------------------------------------------------------------
(* Compact node codec: a node is [id |-> BigUint, address |-> address] *)

Node_to_bencode_panics(node) == id_to_netbytes_panics(node.id)

Node_to_bencode(node) ==
    LET result == id_to_netbytes(node.id)
    IN  ByteString(result \o netaddr_to_netbytes(node.address))

\* Node::from_bencode with the address slice one byte early (v[19..25])
Node_from_bencode_shifted(b) ==
    IF b.t = "ByteString" /\ Len(b.v) = 26
    THEN [some |-> TRUE,
          val |-> [id |-> id_from_netbytes(SubSeq(b.v, 1, 20)),
                   address |-> netaddr_from_netbytes(SubSeq(b.v, 20, 25))]]
    ELSE [some |-> FALSE, reason |-> "unexpected representation for a node"]

\* Node::from_bencode with the guard v.len() >= 26
Node_from_bencode_atleast(b) ==
    IF b.t = "ByteString" /\ Len(b.v) >= 26
    THEN [some |-> TRUE,
          val |-> [id |-> id_from_netbytes(SubSeq(b.v, 1, 20)),
                   address |-> netaddr_from_netbytes(SubSeq(b.v, 21, 26))]]
    ELSE [some |-> FALSE, reason |-> "unexpected representation for a node"]

Node_from_bencode(b) ==
    IF b.t = "ByteString" /\ Len(b.v) = 26
    THEN [some |-> TRUE,
          val |-> [id |-> id_from_netbytes(SubSeq(b.v, 1, 20)),
                   address |-> netaddr_from_netbytes(SubSeq(b.v, 21, 26))]]
    ELSE [some |-> FALSE, reason |-> "unexpected representation for a node"]

----------------------------------------------------------------------------
(* Package codec.  A Package is                                            *)
(*   [transaction_id |-> bytes, payload |-> Payload, sender |-> Option]    *)
(* with Payload one of [t |-> "Query", d |-> DictMap],                     *)
(* [t |-> "Response", d |-> DictMap], [t |-> "Error", code |-> i, msg |-> s] *)
(* and sender [some |-> FALSE] or [some |-> TRUE, val |-> node].           *)

None == [some |-> FALSE]
Some(x) == [some |-> TRUE, val |-> x]

\* debug_and_return!(msg): log msg and return None
debug_and_return(msg) == [some |-> FALSE, reason |-> msg]

\* dict_with_sender starting from an empty map instead of a clone of dict
dict_with_sender_fresh(dict, maybe_sender) ==
    LET d == EmptyDict
    IN  Dict(IF maybe_sender.some
             THEN insert(d, key(SENDER), Node_to_bencode(maybe_sender.val))
             ELSE d)

dict_with_sender(dict, maybe_sender) ==
    LET d == dict
    IN  Dict(IF maybe_sender.some
             THEN insert(d, key(SENDER), Node_to_bencode(maybe_sender.val))
             ELSE d)

\* the assert of id_to_netbytes fails while the package is encoded
Package_to_bencode_panics(p) ==
    /\ p.payload.t \in {"Query", "Response"}
    /\ p.sender.some
    /\ Node_to_bencode_panics(p.sender.val)

\* Package::to_bencode appending the sender to the list of an Error payload
Package_to_bencode_error_sender(p) ==
    LET result0 == insert(EmptyDict, key(TR_ID), ByteString(p.transaction_id))
        typ == CASE p.payload.t = "Query" -> QUERY
                 [] p.payload.t = "Response" -> RESPONSE
                 [] p.payload.t = "Error" -> ERROR
        payload == CASE p.payload.t = "Query" -> dict_with_sender(p.payload.d, p.sender)
                     [] p.payload.t = "Response" -> dict_with_sender(p.payload.d, p.sender)
                     [] p.payload.t = "Error" ->
                            List(<<Number(p.payload.code), ByteString(p.payload.msg)>>
                                 \o (IF p.sender.some
                                     THEN <<Node_to_bencode(p.sender.val)>>
                                     ELSE <<>>))
        result1 == insert(result0, key(TYPE), ByteString(typ))
        result2 == insert(result1, key(typ), payload)
    IN  Dict(result2)

Package_to_bencode(p) ==
    LET result0 == insert(EmptyDict, key(TR_ID), ByteString(p.transaction_id))
        typ == CASE p.payload.t = "Query" -> QUERY
                 [] p.payload.t = "Response" -> RESPONSE
                 [] p.payload.t = "Error" -> ERROR
        payload == CASE p.payload.t = "Query" -> dict_with_sender(p.payload.d, p.sender)
                     [] p.payload.t = "Response" -> dict_with_sender(p.payload.d, p.sender)
                     [] p.payload.t = "Error" ->
                            List(<<Number(p.payload.code), ByteString(p.payload.msg)>>)
        result1 == insert(result0, key(TYPE), ByteString(typ))
        result2 == insert(result1, key(typ), payload)
    IN  Dict(result2)

\* bytes_or_none!(dict, key, msg): the bytes under key, or return None
bytes_or_none(dict, k, msg) ==
    IF k \in DOMAIN dict /\ dict[k].t = "ByteString"
    THEN Some(dict[k].v)
    ELSE debug_and_return(msg)

\* FromBencode::from_bencode(&sender_be) of extract_sender!: the result is
\* used as Option<base::Node>, so the call goes through the bencode crate's
\* decoder for Option<T>; it is taken to succeed exactly when the impl for
\* base::Node does, with that node
sender_from_bencode(sender_be) == Node_from_bencode(sender_be)

\* extract_sender! reading the sender with get instead of remove: the "id"
\* entry stays in the field mapping
extract_sender_keep_id(dict, ty, msg) ==
    LET d == dict
    IN  IF key(SENDER) \in DOMAIN d
        THEN LET sender_be == d[key(SENDER)]
                 sender == sender_from_bencode(sender_be)
             IN  IF sender.some
                 THEN [some |-> TRUE,
                       payload |-> [t |-> ty, d |-> d],
                       sender |-> Some(sender.val)]
                 ELSE debug_and_return("Cannot decode sender")
        ELSE debug_and_return(msg)

\* extract_sender! accepting a body without "id" as a package without sender
extract_sender_optional(dict, ty, msg) ==
    LET d == dict
    IN  IF key(SENDER) \in DOMAIN d
        THEN LET sender_be == d[key(SENDER)]
                 sender == sender_from_bencode(sender_be)
             IN  IF sender.some
                 THEN [some |-> TRUE,
                       payload |-> [t |-> ty, d |-> remove(d, key(SENDER))],
                       sender |-> Some(sender.val)]
                 ELSE debug_and_return("Cannot decode sender")
        ELSE [some |-> TRUE, payload |-> [t |-> ty, d |-> d], sender |-> None]

\* extract_sender!(dict, ty, msg): (ty(dict without "id"), sender)
extract_sender(dict, ty, msg) ==
    LET d == dict
    IN  IF key(SENDER) \in DOMAIN d
        THEN LET sender_be == d[key(SENDER)]
                 sender == sender_from_bencode(sender_be)
             IN  IF sender.some
                 THEN [some |-> TRUE,
                       payload |-> [t |-> ty, d |-> remove(d, key(SENDER))],
                       sender |-> Some(sender.val)]
                 ELSE debug_and_return("Cannot decode sender")
        ELSE debug_and_return(msg)

\* arm Some(ERROR) failing the package when the message is not UTF-8
error_arm_strict(payload_data) ==
    IF payload_data.t = "List"
    THEN LET v == payload_data.v
         IN  IF Len(v) = 2 /\ v[1].t = "Number" /\ v[2].t = "ByteString"
             THEN LET m == container_as_str(v[2].v)
                  IN  IF m.some
                      THEN [some |-> TRUE,
                            payload |-> [t |-> "Error", code |-> v[1].v, msg |-> m.str],
                            sender |-> None]
                      ELSE debug_and_return("Error message is not UTF8")
             ELSE debug_and_return("Error body of unknown structure")
    ELSE debug_and_return("Error body of unexpected type")

\* arm Some(ERROR): the payload must be the list [Number, ByteString]; a
\* message that is not UTF-8 is replaced by "Unknown error"
error_arm(payload_data) ==
    IF payload_data.t = "List"
    THEN LET v == payload_data.v
         IN  IF Len(v) = 2 /\ v[1].t = "Number" /\ v[2].t = "ByteString"
             THEN LET m == container_as_str(v[2].v)
                      str_msg == IF m.some THEN m.str ELSE UNKNOWN_ERROR
                  IN  [some |-> TRUE,
                       payload |-> [t |-> "Error", code |-> v[1].v, msg |-> str_msg],
                       sender |-> None]
             ELSE debug_and_return("Error body of unknown structure")
    ELSE debug_and_return("Error body of unexpected type")

\* arm Some(QUERY)
query_arm(payload_data) ==
    IF payload_data.t = "Dict"
    THEN extract_sender(payload_data.v, "Query", "No sender ID in query")
    ELSE debug_and_return("Query body of unexpected type")

\* arm Some(RESPONSE)
response_arm(payload_data) ==
    IF payload_data.t = "Dict"
    THEN extract_sender(payload_data.v, "Response", "No sender ID in response")
    ELSE debug_and_return("Response body of unexpected type")

\* arm Some(unknown)
unknown_arm(unknown) == debug_and_return("Unexpected payload type")

\* arm None: the type is not UTF-8
not_utf8_arm(typ) == debug_and_return("Not a UTF8 string: field y")

\* the match with a catch-all arm that takes any other type for a query
payload_and_sender_default_query(typ, payload_data) ==
    LET s == container_as_str(typ)
    IN  IF ~s.some THEN not_utf8_arm(typ)
        ELSE IF s.str = ERROR THEN error_arm(payload_data)
        ELSE IF s.str = RESPONSE THEN response_arm(payload_data)
        ELSE query_arm(payload_data)

\* the match on typ.container_as_str() of Package::from_bencode
payload_and_sender(typ, payload_data) ==
    LET s == container_as_str(typ)
    IN  IF ~s.some THEN not_utf8_arm(typ)
        ELSE IF s.str = ERROR THEN error_arm(payload_data)
        ELSE IF s.str = QUERY THEN query_arm(payload_data)
        ELSE IF s.str = RESPONSE THEN response_arm(payload_data)
        ELSE unknown_arm(s.str)

\* Package::from_bencode looking up the transaction id before the payload
Package_from_bencode_tt_first(b) ==
    IF b.t # "Dict"
    THEN debug_and_return("Expected dict as top-level package")
    ELSE LET dict == b.v
             typ == bytes_or_none(dict, TYPE, "No type")
             tt == bytes_or_none(dict, TR_ID, "No transaction id")
         IN  IF ~typ.some THEN typ
             ELSE IF ~tt.some THEN tt
             ELSE IF typ.val \notin DOMAIN dict THEN debug_and_return("No payload")
             ELSE LET payload_data == dict[typ.val]
                      ps == payload_and_sender(typ.val, payload_data)
                  IN  IF ~ps.some THEN ps
                      ELSE Some([transaction_id |-> tt.val,
                                 payload |-> ps.payload,
                                 sender |-> ps.sender])

Package_from_bencode(b) ==
    IF b.t # "Dict"
    THEN debug_and_return("Expected dict as top-level package")
    ELSE LET dict == b.v
             typ == bytes_or_none(dict, TYPE, "No type")
         IN  IF ~typ.some THEN typ
             ELSE IF typ.val \notin DOMAIN dict THEN debug_and_return("No payload")
             ELSE LET payload_data == dict[typ.val]
                      ps == payload_and_sender(typ.val, payload_data)
                  IN  IF ~ps.some THEN ps
                      ELSE LET tt == bytes_or_none(dict, TR_ID, "No transaction id")
                           IN  IF ~tt.some THEN tt
                               ELSE Some([transaction_id |-> tt.val,
                                          payload |-> ps.payload,
                                          sender |-> ps.sender])

----------------------------------------------------------------------------
(* Bounds and input domains *)

\* digit positions of the sampled identifiers; position 21 is beyond 160 bits
MaxIdLen == 21

\* longest byte string handed to the compact node decoder
MaxWireLen == 28

\* digits placed in the sampled identifiers
SampleDigits == {0, 1, 42, 255}

\* the identifier with digit a at position i and digit b at position j
TwoDigit(i, a, j, b) ==
    Normalize([k \in 1..MaxIdLen |-> IF k = j THEN b ELSE IF k = i THEN a ELSE 0])

\* 2^160 - 1
MaxId == [k \in 1..ID_BYTE_SIZE |-> 255]

\* 0x0A0B0C0D
ScenarioId == <<13, 12, 11, 10>>

Ids ==
    {TwoDigit(i, a, j, b) : i \in 1..MaxIdLen, j \in 1..MaxIdLen,
                            a \in SampleDigits, b \in SampleDigits}
    \cup {MaxId, ScenarioId}

Addresses ==
    {[ip |-> i, port |-> q] :
        i \in {<<127, 0, 0, 1>>, <<0, 0, 0, 0>>, <<255, 255, 255, 255>>, <<192, 168, 1, 7>>},
        q \in {0, 80, 255, 256, 31816, 65535}}

Nodes ==
    {[id |-> i, address |-> a] :
        i \in {TwoDigit(k, d, k, d) : k \in 1..MaxIdLen, d \in {0, 1, 255}}
              \cup {MaxId, ScenarioId},
        a \in Addresses}

\* wire values handed to the compact node decoder
NodeWires ==
    {ByteString([k \in 1..n |-> c]) : n \in 0..MaxWireLen, c \in {0, 7, 255}}
    \cup {ByteString([k \in 1..n |-> k]) : n \in 0..MaxWireLen}
    \cup {Number(42), List(<<>>), Dict(EmptyDict)}

\* "test", "ok", "x", "error", e-acute, a lone 0xFF
TestKey == <<116, 101, 115, 116>>
OkText == <<111, 107>>
XText == <<120>>
ErrorText == <<101, 114, 114, 111, 114>>
EAcute == <<195, 169>>
NotUtf8 == <<255>>

TransactionId == <<1, 2, 254, 255>>

\* senders of the sampled packages
PkgNodes ==
    {[id |-> i, address |-> a] :
        i \in {<<>>, <<42>>, MaxId, TwoDigit(MaxIdLen, 1, MaxIdLen, 1)},
        a \in {[ip |-> <<127, 0, 0, 1>>, port |-> 31816],
               [ip |-> <<255, 255, 255, 255>>, port |-> 65535]}}

Senders == {None} \cup {Some(n) : n \in PkgNodes}

\* field mappings of the sampled Query / Response payloads
FieldMaps ==
    { EmptyDict,
      insert(EmptyDict, TestKey, ByteString(OkText)),
      insert(insert(EmptyDict, TestKey, ByteString(OkText)), XText, Number(5)),
      insert(EmptyDict, XText, List(<<Number(1), Dict(insert(EmptyDict, SENDER, Number(2)))>>)),
      insert(EmptyDict, SENDER, ByteString(XText)),
      insert(insert(EmptyDict, TestKey, ByteString(OkText)), SENDER, Number(7)) }

Payloads ==
    {[t |-> ty, d |-> f] : ty \in {"Query", "Response"}, f \in FieldMaps}
    \cup {[t |-> "Error", code |-> c, msg |-> m] :
             c \in {-1, 0, 10, 201}, m \in {<<>>, ErrorText, EAcute}}

Packages ==
    {[transaction_id |-> tt, payload |-> pl, sender |-> sn] :
        tt \in {<<>>, TransactionId, TR_ID}, pl \in Payloads, sn \in Senders}

\* a well-formed 26-byte compact node, and byte strings of the wrong length
GoodNodeBytes == [k \in 1..26 |-> k]

\* payload values found under the type key of a received dictionary
PayloadValues ==
    { Number(3), ByteString(OkText),
      List(<<>>), List(<<Number(10)>>),
      List(<<Number(10), ByteString(ErrorText)>>),
      List(<<Number(-1), ByteString(NotUtf8)>>),
      List(<<Number(10), ByteString(EAcute)>>),
      List(<<ByteString(ErrorText), Number(10)>>),
      List(<<Number(10), Number(11)>>),
      List(<<Number(10), ByteString(ErrorText), Number(1)>>),
      Dict(EmptyDict),
      Dict(insert(EmptyDict, TestKey, ByteString(OkText))),
      Dict(insert(EmptyDict, SENDER, ByteString(GoodNodeBytes))),
      Dict(insert(insert(EmptyDict, TestKey, ByteString(OkText)),
                  SENDER, ByteString(GoodNodeBytes))),
      Dict(insert(EmptyDict, SENDER, ByteString(SubSeq(GoodNodeBytes, 1, 25)))),
      Dict(insert(EmptyDict, SENDER, ByteString(GoodNodeBytes \o <<0>>))),
      Dict(insert(EmptyDict, SENDER, Number(42))) }

\* values of the "y" and "tt" entries of a received dictionary
TypeValues ==
    {ByteString(s) : s \in {QUERY, RESPONSE, ERROR, XText, TYPE, TR_ID, NotUtf8, <<>>}}
    \cup {Number(1), List(<<>>)}

TrIdValues == {ByteString(TransactionId), ByteString(<<>>), Number(9)}

\* keys under which a received dictionary may hold a payload
PayloadKeys == {QUERY, RESPONSE, ERROR, XText, NotUtf8, <<>>}

\* the dictionary with the given optional "y", "tt" and payload entries
Received(y, tt, pk, pv) ==
    LET d0 == EmptyDict
        d1 == IF pk.some THEN insert(d0, pk.val, pv) ELSE d0
        d2 == IF tt.some THEN insert(d1, TR_ID, tt.val) ELSE d1
        d3 == IF y.some THEN insert(d2, TYPE, y.val) ELSE d2
    IN  Dict(d3)

\* wire values handed to the package decoder
PackageWires ==
    {Received(y, tt, pk, pv) :
        y \in {None} \cup {Some(v) : v \in TypeValues},
        tt \in {None} \cup {Some(v) : v \in TrIdValues},
        pk \in {None} \cup {Some(k) : k \in PayloadKeys},
        pv \in PayloadValues}
    \cup {Number(0), ByteString(QUERY), List(<<ByteString(QUERY)>>)}

----------------------------------------------------------------------------
(* The codec as a state machine: a value is either built locally and       *)
(* encoded, the encoding then being decoded (pc: encode, decode, done), or *)
(* received from the network and decoded (pc: decode, done).  A failed     *)
(* assert ends the run in pc = "panic".                                    *)

Init ==
    /\ ret = None
    /\ \/ /\ op = "id"
          /\ pc = "encode"
          /\ arg \in {Some(i) : i \in Ids}
          /\ wire = None
       \/ /\ op = "node"
          /\ pc = "encode"
          /\ arg \in {Some(n) : n \in Nodes}
          /\ wire = None
       \/ /\ op = "node"
          /\ pc = "decode"
          /\ arg = None
          /\ wire \in {Some(w) : w \in NodeWires}
       \/ /\ op = "package"
          /\ pc = "encode"
          /\ arg \in {Some(p) : p \in Packages}
          /\ wire = None
       \/ /\ op = "package"
          /\ pc = "decode"
          /\ arg = None
          /\ wire \in {Some(w) : w \in PackageWires}

\* id_to_netbytes(&id)
IdToNetbytes ==
    /\ op = "id" /\ pc = "encode"
    /\ IF id_to_netbytes_panics(arg.val)
       THEN pc' = "panic" /\ wire' = wire
       ELSE pc' = "decode" /\ wire' = Some(id_to_netbytes(arg.val))
    /\ UNCHANGED <<op, arg, ret>>

\* id_from_netbytes(bytes)
IdFromNetbytes ==
    /\ op = "id" /\ pc = "decode"
    /\ ret' = Some(id_from_netbytes(wire.val))
    /\ pc' = "done"
    /\ UNCHANGED <<op, arg, wire>>

\* node.to_bencode()
NodeToBencode ==
    /\ op = "node" /\ pc = "encode"
    /\ IF Node_to_bencode_panics(arg.val)
       THEN pc' = "panic" /\ wire' = wire
       ELSE pc' = "decode" /\ wire' = Some(Node_to_bencode(arg.val))
    /\ UNCHANGED <<op, arg, ret>>

\* FromBencode::from_bencode(&b) for base::Node
NodeFromBencode ==
    /\ op = "node" /\ pc = "decode"
    /\ ret' = Node_from_bencode(wire.val)
    /\ pc' = "done"
    /\ UNCHANGED <<op, arg, wire>>

\* package.to_bencode()
PackageToBencode ==
    /\ op = "package" /\ pc = "encode"
    /\ IF Package_to_bencode_panics(arg.val)
       THEN pc' = "panic" /\ wire' = wire
       ELSE pc' = "decode" /\ wire' = Some(Package_to_bencode(arg.val))
    /\ UNCHANGED <<op, arg, ret>>

\* FromBencode::from_bencode(&b) for Package
PackageFromBencode ==
    /\ op = "package" /\ pc = "decode"
    /\ ret' = Package_from_bencode(wire.val)
    /\ pc' = "done"
    /\ UNCHANGED <<op, arg, wire>>

Next ==
    \/ IdToNetbytes
    \/ IdFromNetbytes
    \/ NodeToBencode
    \/ NodeFromBencode
    \/ PackageToBencode
    \/ PackageFromBencode

Spec == Init /\ [][Next]_vars

----------------------------------------------------------------------------
(* Failure reasons of the specification, as the diagnostics of the code *)

NotADict == {"Expected dict as top-level package"}
MissingType == {"No type"}
MissingPayload == {"No payload"}
UnknownType == {"Unexpected payload type", "Not a UTF8 string: field y"}
BadErrorShape == {"Error body of unknown structure", "Error body of unexpected type"}
BadBodyShape == {"Query body of unexpected type", "Response body of unexpected type"}
MissingSender == {"No sender ID in query", "No sender ID in response"}
InvalidNode == {"Cannot decode sender"}
InvalidLength == {"unexpected representation for a node"}
MissingTransactionId == {"No transaction id"}

(* Helpers of the properties *)

\* the base-256 digit of weight 256^(k-1) of the identifier v
Digit(v, k) == IF k <= Len(v) THEN v[k] ELSE 0

\* v < 2^160
Below160(v) == Len(v) <= 20

\* bytes is the big-endian, left-zero-padded 20-byte form of v
IsIdBytes(bytes, v) ==
    /\ Len(bytes) = 20
    /\ \A k \in 1..20 : bytes[21 - k] = Digit(v, k)

\* bytes is the 26-byte compact form of the node n
IsCompactNode(bytes, n) ==
    /\ Len(bytes) = 26
    /\ IsIdBytes(SubSeq(bytes, 1, 20), n.id)
    /\ SubSeq(bytes, 21, 24) = n.address.ip
    /\ bytes[25] * 256 + bytes[26] = n.address.port
    /\ bytes[25] \in 0..255 /\ bytes[26] \in 0..255

\* a local value was encoded
Encoded(o) == op = o /\ arg.some /\ pc \in {"decode", "done"}

\* a local value was encoded and decoded back
RoundTripped(o) == op = o /\ arg.some /\ pc = "done"

\* a received value was decoded
Decoded(o) == op = o /\ pc = "done"

----------------------------------------------------------------------------
(* C2 *)

\* C2: for every identifier v below 2^160, id_to_netbytes(v) returns exactly
\* 20 bytes, the big-endian left-zero-padded form of v (0x0A0B0C0D gives 16
\* zero bytes then 0x0A, 0x0B, 0x0C, 0x0D), and id_from_netbytes gives back v.
C2_IdRoundTrip ==
    (op = "id" /\ Below160(arg.val)) =>
        /\ pc # "panic"
        /\ Encoded("id") => IsIdBytes(wire.val, arg.val)
        /\ (Encoded("id") /\ arg.val = ScenarioId) =>
               wire.val = [k \in 1..16 |-> 0] \o <<10, 11, 12, 13>>
        /\ RoundTripped("id") => ret.val = arg.val

\* an identifier using all 160 bits went through both directions
C2_Witness ==
    /\ RoundTripped("id")
    /\ Len(arg.val) = 20 /\ arg.val[20] = 255 /\ arg.val[1] = 42

(* C3 *)

\* C3: for every compact node (identifier below 2^160, IPv4 address, 16-bit
\* port) the encoding is a byte string of exactly 26 bytes, the 20-byte
\* identifier form followed by the 6-byte address form, and decoding it
\* yields the same identifier and the same address.
C3_NodeRoundTrip ==
    (op = "node" /\ arg.some /\ Below160(arg.val.id)) =>
        /\ pc # "panic"
        /\ Encoded("node") =>
               /\ wire.val.t = "ByteString"
               /\ IsCompactNode(wire.val.v, arg.val)
        /\ RoundTripped("node") =>
               /\ ret.some
               /\ ret.val.id = arg.val.id
               /\ ret.val.address = arg.val.address

\* a node with a high identifier digit and a port above 255 went round
C3_Witness ==
    /\ RoundTripped("node")
    /\ Len(arg.val.id) = 20
    /\ arg.val.address.port = 31816
    /\ ret.some

(* C4 *)

\* C4: decoding a compact node from a byte string whose length is not 26
\* (shorter, longer or empty) fails with InvalidLength and yields no node.
C4_NodeWrongLength ==
    (Decoded("node") /\ wire.val.t = "ByteString" /\ Len(wire.val.v) # 26) =>
        /\ ~ret.some
        /\ "val" \notin DOMAIN ret
        /\ ret.reason \in InvalidLength

\* a 27-byte string was rejected
C4_Witness ==
    /\ Decoded("node") /\ ~arg.some
    /\ wire.val.t = "ByteString" /\ Len(wire.val.v) = 27
    /\ ~ret.some

----------------------------------------------------------------------------
(* Shapes of received dictionaries, stated on the wire value alone *)

\* the value is a dictionary whose "y" entry is a byte string
HasType(b) == b.t = "Dict" /\ TYPE \in DOMAIN b.v /\ b.v[TYPE].t = "ByteString"

\* ... and the "y" bytes index an entry of the dictionary
HasPayload(b) == HasType(b) /\ b.v[TYPE].v \in DOMAIN b.v

\* the entry indexed by the "y" bytes
PayloadOf(b) == b.v[b.v[TYPE].v]

\* the "tt" entry is a byte string
HasTrId(b) == b.t = "Dict" /\ TR_ID \in DOMAIN b.v /\ b.v[TR_ID].t = "ByteString"

\* a list [integer, byte string]
IsErrorList(x) ==
    x.t = "List" /\ Len(x.v) = 2 /\ x.v[1].t = "Number" /\ x.v[2].t = "ByteString"

\* a dictionary whose "id" entry is a byte string of 26 bytes
IsBodyWithSender(x) ==
    /\ x.t = "Dict"
    /\ SENDER \in DOMAIN x.v
    /\ x.v[SENDER].t = "ByteString"
    /\ Len(x.v[SENDER].v) = 26

\* the type is one of "q", "r", "e" and the payload has the shape it asks for
TypeAndShapeOk(b) ==
    /\ HasPayload(b)
    /\ \/ b.v[TYPE].v = ERROR /\ IsErrorList(PayloadOf(b))
       \/ b.v[TYPE].v \in {QUERY, RESPONSE} /\ IsBodyWithSender(PayloadOf(b))

----------------------------------------------------------------------------
(* C1 *)

C1_Pre ==
    /\ op = "package" /\ arg.some
    /\ arg.val.payload.t \in {"Query", "Response"}
    /\ SENDER \notin DOMAIN arg.val.payload.d
    /\ arg.val.sender.some
    /\ Below160(arg.val.sender.val.id)

\* C1: for every Package whose payload is Query or Response (fields not
\* using the key "id") and whose sender is Some(n) with n.id < 2^160,
\* decoding the encoding succeeds and yields an equal Package: same
\* transaction id, same variant, same field mapping, same sender.
C1_PackageRoundTrip ==
    C1_Pre =>
        /\ pc # "panic"
        /\ pc = "done" =>
               /\ ret.some
               /\ ret.val.transaction_id = arg.val.transaction_id
               /\ ret.val.payload.t = arg.val.payload.t
               /\ DOMAIN ret.val.payload.d = DOMAIN arg.val.payload.d
               /\ \A k \in DOMAIN arg.val.payload.d :
                      ret.val.payload.d[k] = arg.val.payload.d[k]
               /\ ret.val.sender.some
               /\ ret.val.sender.val.id = arg.val.sender.val.id
               /\ ret.val.sender.val.address = arg.val.sender.val.address
               /\ ret.val = arg.val

\* a Response with two fields and the largest identifier went round
C1_Witness ==
    /\ C1_Pre /\ pc = "done"
    /\ arg.val.payload.t = "Response"
    /\ Cardinality(DOMAIN arg.val.payload.d) = 2
    /\ arg.val.sender.val.id = MaxId
    /\ ret.some

(* C5 *)

C5_Pre ==
    /\ Decoded("package")
    /\ HasType(wire.val)
    /\ wire.val.v[TYPE].v \notin {QUERY, RESPONSE, ERROR}

\* C5 as stated: a dictionary whose "y" entry is a byte string other than
\* "q", "r", "e" fails with UnknownType.
C5_Original ==
    C5_Pre => (~ret.some /\ ret.reason \in UnknownType)

\* C5: decoding a dictionary whose "y" entry is a byte string other than
\* "q", "r", "e" (other text or bytes that are not UTF-8) fails: with
\* UnknownType when the dictionary has an entry under the "y" bytes, with
\* MissingPayload when it has none.
C5_UnknownType ==
    C5_Pre =>
        /\ ~ret.some
        /\ HasPayload(wire.val) => ret.reason \in UnknownType
        /\ ~HasPayload(wire.val) => ret.reason \in MissingPayload

\* a type that is not UTF-8, with a payload under it, was rejected
C5_Witness ==
    /\ C5_Pre
    /\ wire.val.v[TYPE].v = NotUtf8
    /\ HasPayload(wire.val)
    /\ ret.reason = "Not a UTF8 string: field y"

(* C6 *)

C6_Pre ==
    /\ Decoded("package")
    /\ HasPayload(wire.val)
    /\ wire.val.v[TYPE].v \in {QUERY, RESPONSE}
    /\ PayloadOf(wire.val).t = "Dict"
    /\ SENDER \notin DOMAIN PayloadOf(wire.val).v

\* C6: decoding a dictionary with "y" = "q" (likewise "r") whose body
\* dictionary has no "id" entry fails with MissingSender, whatever else the
\* body and the top-level dictionary hold; no package without sender results.
C6_MissingSender ==
    C6_Pre =>
        /\ ~ret.some
        /\ "val" \notin DOMAIN ret
        /\ ret.reason \in MissingSender
        /\ ret.reason = IF wire.val.v[TYPE].v = QUERY
                        THEN "No sender ID in query"
                        ELSE "No sender ID in response"

\* a query with another field, and no transaction id either, was rejected
C6_Witness ==
    /\ C6_Pre
    /\ wire.val.v[TYPE].v = QUERY
    /\ TestKey \in DOMAIN PayloadOf(wire.val).v
    /\ TR_ID \notin DOMAIN wire.val.v
    /\ ret.reason = "No sender ID in query"

(* C7 *)

\* C7: every decoded package whose payload is Error has sender = None;
\* encoding an Error package with sender Some(n) writes no sender (the
\* payload is only the list [code, message]) and decoding it back yields the
\* same transaction id, code and message with sender = None.
C7_ErrorHasNoSender ==
    /\ (Decoded("package") /\ ret.some /\ ret.val.payload.t = "Error") =>
           ~ret.val.sender.some
    /\ (op = "package" /\ arg.some /\ arg.val.payload.t = "Error") =>
           /\ pc # "panic"
           /\ Encoded("package") =>
                  /\ DOMAIN wire.val.v = {TR_ID, TYPE, ERROR}
                  /\ wire.val.v[ERROR] =
                         List(<<Number(arg.val.payload.code),
                                ByteString(arg.val.payload.msg)>>)
           /\ RoundTripped("package") =>
                  /\ ret.some
                  /\ ret.val.transaction_id = arg.val.transaction_id
                  /\ ret.val.payload = arg.val.payload
                  /\ ret.val.sender = None

\* an Error package with a sender went round and came back without it
C7_Witness ==
    /\ RoundTripped("package")
    /\ arg.val.payload.t = "Error"
    /\ arg.val.payload.msg = EAcute
    /\ arg.val.sender.some
    /\ ret.some /\ ~ret.val.sender.some

(* C8 *)

C8_Pre ==
    /\ Decoded("package")
    /\ HasPayload(wire.val)
    /\ wire.val.v[TYPE].v = ERROR
    /\ HasTrId(wire.val)
    /\ IsErrorList(PayloadOf(wire.val))
    /\ ~IsUtf8(PayloadOf(wire.val).v[2].v)

TagOf(payload) ==
    CASE payload.t = "Query" -> QUERY
      [] payload.t = "Response" -> RESPONSE
      [] payload.t = "Error" -> ERROR

\* w is the dictionary C9 describes for the package p
IsEncodingOf(w, p) ==
    LET tag == TagOf(p.payload)
    IN  /\ w.t = "Dict"
        /\ DOMAIN w.v = {TR_ID, TYPE, tag}
        /\ w.v[TR_ID] = ByteString(p.transaction_id)
        /\ w.v[TYPE] = ByteString(tag)
        /\ p.payload.t = "Error" =>
               /\ w.v[tag].t = "List"
               /\ w.v[tag].v = <<Number(p.payload.code), ByteString(p.payload.msg)>>
        /\ p.payload.t \in {"Query", "Response"} =>
               /\ w.v[tag].t = "Dict"
               /\ \A k \in (DOMAIN p.payload.d) \ {SENDER} :
                      /\ k \in DOMAIN w.v[tag].v
                      /\ w.v[tag].v[k] = p.payload.d[k]
               /\ p.sender.some =>
                      /\ DOMAIN w.v[tag].v = (DOMAIN p.payload.d) \cup {SENDER}
                      /\ w.v[tag].v[SENDER].t = "ByteString"
                      /\ IsCompactNode(w.v[tag].v[SENDER].v, p.sender.val)
                      /\ SENDER \notin DOMAIN p.payload.d
               /\ ~p.sender.some =>
                      /\ SENDER \notin DOMAIN w.v[tag].v
                      /\ DOMAIN w.v[tag].v = DOMAIN p.payload.d

\* C9 as stated: encoding any Package yields the dictionary with exactly the
\* keys "tt", "y" and the tag, the payload holding the fields plus "id" when
\* a sender is supplied and no "id" when none is.
C9_Original ==
    (op = "package" /\ arg.some) =>
        /\ pc # "panic"
        /\ Encoded("package") => IsEncodingOf(wire.val, arg.val)

C9_Pre ==
    /\ op = "package" /\ arg.some
    /\ arg.val.payload.t \in {"Query", "Response"} =>
           /\ SENDER \notin DOMAIN arg.val.payload.d
           /\ arg.val.sender.some => Below160(arg.val.sender.val.id)

\* C9: encoding a Package whose Query / Response fields do not use the key
\* "id" and whose sender identifier, when one is encoded, is below 2^160
\* yields a dictionary with exactly the keys "tt" (the transaction id), "y"
\* (the tag "q", "r" or "e") and the tag (the payload): for Error the list
\* [code, message]; for Query / Response a dictionary of the fields plus
\* "id", the sender's 26-byte compact node, when a sender is supplied, and
\* without "id" when none is.
C9_EncodingShape ==
    C9_Pre =>
        /\ pc # "panic"
        /\ Encoded("package") => IsEncodingOf(wire.val, arg.val)

\* a Query with a field and a sender, and a Query without sender, were encoded
C9_Witness ==
    /\ C9_Pre /\ Encoded("package")
    /\ arg.val.payload.t = "Query"
    /\ TestKey \in DOMAIN arg.val.payload.d
    /\ arg.val.sender.some
    /\ arg.val.sender.val.id = MaxId

(* C10 *)

\* the first of the five checks of the decoder that the value b violates,
\* 0 when it violates none
FirstViolated(b) ==
    IF b.t # "Dict" THEN 1
    ELSE IF ~HasType(b) THEN 2
    ELSE IF ~HasPayload(b) THEN 3
    ELSE IF ~TypeAndShapeOk(b) THEN 4
    ELSE IF ~HasTrId(b) THEN 5
    ELSE 0

\* the failure reasons of each check
ReasonsOf(n) ==
    CASE n = 1 -> NotADict
      [] n = 2 -> MissingType
      [] n = 3 -> MissingPayload
      [] n = 4 -> UnknownType \cup BadErrorShape \cup BadBodyShape
                  \cup MissingSender \cup InvalidNode
      [] n = 5 -> MissingTransactionId

\* the checks after the first one, taken alone, that b violates as well
AlsoViolates(b, n) ==
    CASE n = 3 -> HasType(b) /\ ~HasPayload(b)
      [] n = 5 -> b.t = "Dict" /\ ~HasTrId(b)

====
